---- MODULE Spec2Model ----
(***************************************************************************)
(* A model of agent/site.py (class Site): the restore and reinstall        *)
(* workflows, the readiness poller and the configuration store.            *)
(*                                                                         *)
(* Every external command (bench_execute, the bench's helpers, the proxy   *)
(* reload) either returns or raises a CommandFailure; the @step and @job   *)
(* envelopes record the outcome and re-raise.  The journal `log` is a      *)
(* history variable: one entry per external call, in call order, with the  *)
(* call's outcome.                                                         *)
(***************************************************************************)
EXTENDS Integers, Sequences, FiniteSets, TLC

\* Number of distinct sub-applications the bench knows.
NumApps == 3

Apps == 1..NumApps

VARIABLES
    job,        \* the job the worker is running: "none", "restore_job", "reinstall_job"
    pc,         \* the next call the running job makes
    exc,        \* an exception is propagating (pending inside a finally block)
    log,        \* journal of the external calls of the running job
    cred,       \* the temporary database credential of this site exists
    installed,  \* the site's installed apps, as frappe.get_installed_apps lists them
    snapshot,   \* installed_apps, the list the uninstall loop iterates over
    idx,        \* position of the uninstall loop in snapshot
    keep,       \* apps (restore_job) / apps_to_keep
    skip,       \* skip_failing_patches
    wpc,        \* wait_till_ready: position of the poller
    elapsed,    \* wait_till_ready: time.time() - start, in seconds
    tries,      \* wait_till_ready: data["tries"], TRUE for an output, FALSE for a failure payload
    sleeps,     \* wait_till_ready: number of time.sleep(1) calls made
    calls,      \* wait_till_ready: outcome of every ready-for-migration call, in call order
    config,     \* the document stored in site_config.json
    cjob,       \* the configuration job the worker is running
    cpc,        \* the next call the configuration job makes
    value,      \* update_config: value (the additions)
    remove,     \* update_config: remove (the keys to pop; <<>> models None and [])
    domain,     \* add_domain / remove_domain: domain
    before,     \* the document as it was when the running job started
    clog,       \* journal of the external calls of the configuration job
    origin,     \* the document before the current run of update_config({}) jobs
    streak,     \* length of the current run of update_config({}) jobs
    adds,       \* per domain: add_domain jobs that wrote it since it was last removed
    rpc,        \* rename_job: the next call the job makes
    rlog,       \* rename_job: journal of the external calls of the running job
    name,       \* self.name, the site's name
    new_name,   \* rename_job: new_name (0: no job)
    directory,  \* the name of the site's directory on disk
    maintenance,\* the site is in maintenance mode
    drained,    \* rename_job: the last attempt wait_till_ready returned was a success
    bpc,        \* backup: the next thing the step does
    with_files, \* backup: the with_files argument
    listing,    \* os.listdir of <site>/private/backups, in the order it is returned
    blog,       \* backup: journal of the commands of the running step
    backups,    \* fetch_latest_backup: role -> index in listing of the selected file
    tpc,        \* table steps: the next thing the running step does
    tstep,      \* table steps: the step that is running ("none": no step)
    present,    \* the tables the database holds
    manifest,   \* touched_tables.json: a list of table names
    dir_exists, \* self.backup_directory exists
    staged,     \* the tables t whose file <t>.sql is in self.backup_directory
    staged0,    \* staged as it was when the running step began
    tlist,      \* the list the running step iterates over
    tidx,       \* how many entries of tlist the loop has been through
    record,     \* data["tables"]: the tables the running step has an entry for
    tlog,       \* journal of the commands of the running step
    prev,       \* the step that ended successfully just before this one ("none")
    kpc,        \* concurrent add_domain jobs: per worker, the next thing it does
    kdomain,    \* per worker: the domain argument
    klist,      \* per worker: list(domains), the value handed to update_config
    kdoc,       \* per worker: new_config, the document update_config read
    overlapped  \* a worker started while the other was between start and end

restoreVars == <<job, pc, exc, log, cred, installed, snapshot, idx, keep, skip>>

waitVars == <<wpc, elapsed, tries, sleeps, calls>>

cfgVars == <<config, cjob, cpc, value, remove, domain, before, clog, origin, streak, adds>>

renameVars == <<rpc, rlog, name, new_name, directory, maintenance, drained>>

\* The state of the workflows modelled further down.
backupVars == <<bpc, with_files, listing, blog, backups>>

tableVars == <<tpc, tstep, present, manifest, dir_exists, staged, staged0, tlist, tidx,
               record, tlog, prev>>

concVars == <<kpc, kdomain, klist, kdoc, overlapped>>

moreVars == <<renameVars, backupVars, tableVars, concVars>>

vars == <<restoreVars, waitVars, cfgVars, moreVars>>

----------------------------------------------------------------------------
(* Helpers *)

Range(s) == {s[i] : i \in 1..Len(s)}

\* Lists of apps without repetition: what frappe.get_installed_apps prints.
AppLists == {s \in UNION {[1..n -> Apps] : n \in 0..NumApps} :
                \A i, j \in 1..Len(s) : i # j => s[i] # s[j]}

\* One journal entry: the call, its argument (0: none) and whether it returned.
Entry(op, arg, ok) == [op |-> op, arg |-> arg, ok |-> ok]

Called(op) == {i \in 1..Len(log) : log[i].op = op}

----------------------------------------------------------------------------
(* Restore Site job: Site.restore_job and the steps it calls *)

\* No job is running and no temporary credential exists.
WorkerIdle ==
    /\ job = "none"
    /\ pc = "idle"
    /\ exc = FALSE
    /\ log = <<>>
    /\ cred = FALSE
    /\ snapshot = <<>>
    /\ idx = 0
    /\ keep = {}
    /\ skip = FALSE

\* The queue hands the worker a Restore Site job with its arguments.
StartRestoreJob ==
    /\ pc = "idle"
    /\ \E k \in SUBSET Apps, s \in BOOLEAN :
        /\ keep' = k
        /\ skip' = s
    /\ job' = "restore_job"
    /\ pc' = "download_files"
    /\ exc' = FALSE
    /\ log' = <<>>
    /\ snapshot' = <<>>
    /\ idx' = 0
    /\ UNCHANGED <<cred, installed, waitVars, cfgVars, moreVars>>

\* files = self.bench.download_files(...): outside the try block.
DownloadFiles ==
    /\ job = "restore_job"
    /\ pc = "download_files"
    /\ \E ok \in BOOLEAN :
        /\ log' = Append(log, Entry("download_files", 0, ok))
        /\ pc' = IF ok THEN "create_mariadb_user" ELSE "failed"
    /\ UNCHANGED <<job, exc, cred, installed, snapshot, idx, keep, skip,
                   waitVars, cfgVars, moreVars>>

\* Bench.create_mariadb_user: a successful call provisions the temporary
\* credential of this site's database, a failed one provisions nothing.
CreateMariadbUser(has, ok) == IF ok THEN TRUE ELSE has

\* Bench.drop_mariadb_user: the teardown releases the credential; the call may
\* still report a failure to its caller.
DropMariadbUser(has) == FALSE

\* Site.restore without its try/finally: a failed command leaves the step at once.
RestoreCommand_NoFinally ==
    /\ job = "restore_job"
    /\ pc = "restore"
    /\ \E ok \in BOOLEAN :
        /\ log' = Append(log, Entry("restore", 0, ok))
        /\ exc' = ~ok
        /\ IF ok THEN installed' \in AppLists ELSE installed' = installed
        /\ pc' = IF ok THEN "drop_mariadb_user" ELSE "delete_downloaded_files"
    /\ UNCHANGED <<job, cred, snapshot, idx, keep, skip, waitVars, cfgVars, moreVars>>

\* restore_job without its try/finally: a failed provisioning leaves the job at once.
RestoreCreateUser_NoFinally ==
    /\ job = "restore_job"
    /\ pc = "create_mariadb_user"
    /\ \E ok \in BOOLEAN :
        /\ log' = Append(log, Entry("create_mariadb_user", 0, ok))
        /\ cred' = CreateMariadbUser(cred, ok)
        /\ exc' = ~ok
        /\ pc' = IF ok THEN "restore" ELSE "failed"
    /\ UNCHANGED <<job, installed, snapshot, idx, keep, skip, waitVars, cfgVars, moreVars>>

\* Site.restore: create_mariadb_user, called before the try block.  A failure
\* leaves restore at once and lands in restore_job's finally block.
RestoreCreateUser ==
    /\ job = "restore_job"
    /\ pc = "create_mariadb_user"
    /\ \E ok \in BOOLEAN :
        /\ log' = Append(log, Entry("create_mariadb_user", 0, ok))
        /\ cred' = CreateMariadbUser(cred, ok)
        /\ exc' = ~ok
        /\ pc' = IF ok THEN "restore" ELSE "delete_downloaded_files"
    /\ UNCHANGED <<job, installed, snapshot, idx, keep, skip, waitVars, cfgVars, moreVars>>

\* Site.restore: the restore command inside try; restore's finally block runs
\* next whether the command returned or raised.  A restored database brings
\* its own list of installed apps.
RestoreCommand ==
    /\ job = "restore_job"
    /\ pc = "restore"
    /\ \E ok \in BOOLEAN :
        /\ log' = Append(log, Entry("restore", 0, ok))
        /\ exc' = ~ok
        /\ IF ok THEN installed' \in AppLists ELSE installed' = installed
    /\ pc' = "drop_mariadb_user"
    /\ UNCHANGED <<job, cred, snapshot, idx, keep, skip, waitVars, cfgVars, moreVars>>

\* Site.restore: finally: drop_mariadb_user.  A failure of the call replaces
\* whatever was propagating.
RestoreDropUser ==
    /\ job = "restore_job"
    /\ pc = "drop_mariadb_user"
    /\ \E ok \in BOOLEAN :
        /\ log' = Append(log, Entry("drop_mariadb_user", 0, ok))
        /\ exc' = (exc \/ ~ok)
    /\ cred' = DropMariadbUser(cred)
    /\ pc' = "delete_downloaded_files"
    /\ UNCHANGED <<job, installed, snapshot, idx, keep, skip, waitVars, cfgVars, moreVars>>

\* restore_job: finally: delete_downloaded_files; then the pending exception,
\* if any, leaves the job.
DeleteDownloadedFiles ==
    /\ job = "restore_job"
    /\ pc = "delete_downloaded_files"
    /\ \E ok \in BOOLEAN :
        /\ log' = Append(log, Entry("delete_downloaded_files", 0, ok))
        /\ exc' = (exc \/ ~ok)
        /\ pc' = IF exc \/ ~ok THEN "failed" ELSE "get_installed_apps"
    /\ UNCHANGED <<job, cred, installed, snapshot, idx, keep, skip,
                   waitVars, cfgVars, moreVars>>

\* The loop's test inverted: "if app in apps_to_keep".
RECURSIVE NextUnavailable_Inverted(_, _, _)
NextUnavailable_Inverted(apps, i, apps_to_keep) ==
    IF i > Len(apps) THEN Len(apps) + 1
    ELSE IF apps[i] \in apps_to_keep THEN i
    ELSE NextUnavailable_Inverted(apps, i + 1, apps_to_keep)

\* uninstall_unavailable_apps: the position of the next app of apps, from
\* position i on, that is not in apps_to_keep (Len(apps) + 1: the loop is over).
RECURSIVE NextUnavailable(_, _, _)
NextUnavailable(apps, i, apps_to_keep) ==
    IF i > Len(apps) THEN Len(apps) + 1
    ELSE IF apps[i] \notin apps_to_keep THEN i
    ELSE NextUnavailable(apps, i + 1, apps_to_keep)

\* uninstall_unavailable_apps: installed_apps = json.loads(bench_execute(
\* "execute frappe.get_installed_apps")["output"]), then the loop's first test.
GetInstalledApps ==
    /\ job = "restore_job"
    /\ pc = "get_installed_apps"
    /\ \E ok \in BOOLEAN :
        /\ log' = Append(log, Entry("get_installed_apps", 0, ok))
        /\ IF ok
           THEN LET first == NextUnavailable(installed, 1, keep) IN
                /\ snapshot' = installed
                /\ idx' = first
                /\ pc' = IF first > Len(installed) THEN "migrate"
                         ELSE "remove_from_installed_apps"
           ELSE /\ pc' = "failed"
                /\ UNCHANGED <<snapshot, idx>>
    /\ UNCHANGED <<job, exc, cred, installed, keep, skip, waitVars, cfgVars, moreVars>>

\* The effect of a successful remove-from-installed-apps on the site's list.
WithoutApp(apps, app) == SelectSeq(apps, LAMBDA a : a # app)

\* uninstall_unavailable_apps: bench_execute(f"remove-from-installed-apps '{app}'").
RemoveFromInstalledApps ==
    /\ job = "restore_job"
    /\ pc = "remove_from_installed_apps"
    /\ \E ok \in BOOLEAN :
        /\ log' = Append(log, Entry("remove_from_installed_apps", snapshot[idx], ok))
        /\ installed' = IF ok THEN WithoutApp(installed, snapshot[idx]) ELSE installed
        /\ pc' = IF ok THEN "clear_cache" ELSE "failed"
    /\ UNCHANGED <<job, exc, cred, snapshot, idx, keep, skip, waitVars, cfgVars, moreVars>>

\* uninstall_unavailable_apps: bench_execute("clear-cache"), then the loop's
\* next test.
ClearCache ==
    /\ job = "restore_job"
    /\ pc = "clear_cache"
    /\ \E ok \in BOOLEAN :
        /\ log' = Append(log, Entry("clear_cache", 0, ok))
        /\ IF ok
           THEN LET next == NextUnavailable(snapshot, idx + 1, keep) IN
                /\ idx' = next
                /\ pc' = IF next > Len(snapshot) THEN "migrate"
                         ELSE "remove_from_installed_apps"
           ELSE /\ pc' = "failed"
                /\ UNCHANGED idx
    /\ UNCHANGED <<job, exc, cred, installed, snapshot, keep, skip,
                   waitVars, cfgVars, moreVars>>

\* restore_job refreshing the proxy before the site's own finishing steps.
NextStep_ProxyFirst(step) ==
    CASE step = "migrate" -> "setup_nginx"
      [] step = "setup_nginx" -> "reload_nginx"
      [] step = "reload_nginx" -> "set_admin_password"
      [] step = "set_admin_password" -> "enable_scheduler"
      [] step = "enable_scheduler" -> "list_apps"
      [] step = "list_apps" -> "done"

\* The steps of restore_job after the app reconciliation, in program order.
NextStep(step) ==
    CASE step = "migrate" -> "set_admin_password"
      [] step = "set_admin_password" -> "enable_scheduler"
      [] step = "enable_scheduler" -> "setup_nginx"
      [] step = "setup_nginx" -> "reload_nginx"
      [] step = "reload_nginx" -> "list_apps"
      [] step = "list_apps" -> "done"

\* Site.migrate: "migrate --skip-failing" when skip_failing_patches, else "migrate".
MigrateCommand(skip_failing_patches) ==
    IF skip_failing_patches THEN "migrate --skip-failing" ELSE "migrate"

\* restore_job with a failure of migrate swallowed.
Migrate_Swallowed ==
    /\ job = "restore_job"
    /\ pc = "migrate"
    /\ \E ok \in BOOLEAN :
        /\ log' = Append(log, Entry(MigrateCommand(skip), 0, ok))
        /\ pc' = NextStep(pc)
    /\ UNCHANGED <<job, exc, cred, installed, snapshot, idx, keep, skip,
                   waitVars, cfgVars, moreVars>>

\* restore_job: self.migrate(skip_failing_patches=skip_failing_patches).
Migrate ==
    /\ job = "restore_job"
    /\ pc = "migrate"
    /\ \E ok \in BOOLEAN :
        /\ log' = Append(log, Entry(MigrateCommand(skip), 0, ok))
        /\ pc' = IF ok THEN NextStep(pc) ELSE "failed"
    /\ UNCHANGED <<job, exc, cred, installed, snapshot, idx, keep, skip,
                   waitVars, cfgVars, moreVars>>

\* restore_job: set_admin_password, enable_scheduler, bench.setup_nginx,
\* bench.server.reload_nginx and the closing list-apps, one call each.
FinishingStep ==
    /\ job = "restore_job"
    /\ pc \in {"set_admin_password", "enable_scheduler", "setup_nginx",
               "reload_nginx", "list_apps"}
    /\ \E ok \in BOOLEAN :
        /\ log' = Append(log, Entry(pc, 0, ok))
        /\ pc' = IF ok THEN NextStep(pc) ELSE "failed"
    /\ UNCHANGED <<job, exc, cred, installed, snapshot, idx, keep, skip,
                   waitVars, cfgVars, moreVars>>

----------------------------------------------------------------------------
(* Reinstall Site job: Site.reinstall_job and Site.reinstall *)

\* The queue hands the worker a Reinstall Site job.
StartReinstallJob ==
    /\ pc = "idle"
    /\ job' = "reinstall_job"
    /\ pc' = "create_mariadb_user"
    /\ exc' = FALSE
    /\ log' = <<>>
    /\ snapshot' = <<>>
    /\ idx' = 0
    /\ keep' = {}
    /\ skip' = FALSE
    /\ UNCHANGED <<cred, installed, waitVars, cfgVars, moreVars>>

\* Site.reinstall: create_mariadb_user, called before the try block.
ReinstallCreateUser ==
    /\ job = "reinstall_job"
    /\ pc = "create_mariadb_user"
    /\ \E ok \in BOOLEAN :
        /\ log' = Append(log, Entry("create_mariadb_user", 0, ok))
        /\ cred' = CreateMariadbUser(cred, ok)
        /\ exc' = ~ok
        /\ pc' = IF ok THEN "reinstall" ELSE "failed"
    /\ UNCHANGED <<job, installed, snapshot, idx, keep, skip, waitVars, cfgVars, moreVars>>

\* Site.reinstall without its try/finally: a failed command leaves the step at once.
ReinstallCommand_NoFinally ==
    /\ job = "reinstall_job"
    /\ pc = "reinstall"
    /\ \E ok \in BOOLEAN :
        /\ log' = Append(log, Entry("reinstall", 0, ok))
        /\ exc' = ~ok
        /\ IF ok THEN installed' \in AppLists ELSE installed' = installed
        /\ pc' = IF ok THEN "drop_mariadb_user" ELSE "failed"
    /\ UNCHANGED <<job, cred, snapshot, idx, keep, skip, waitVars, cfgVars, moreVars>>

\* Site.reinstall: the reinstall command inside try; the finally block runs
\* next whether the command returned or raised.  A reinstalled site has a
\* fresh list of installed apps.
ReinstallCommand ==
    /\ job = "reinstall_job"
    /\ pc = "reinstall"
    /\ \E ok \in BOOLEAN :
        /\ log' = Append(log, Entry("reinstall", 0, ok))
        /\ exc' = ~ok
        /\ IF ok THEN installed' \in AppLists ELSE installed' = installed
    /\ pc' = "drop_mariadb_user"
    /\ UNCHANGED <<job, cred, snapshot, idx, keep, skip, waitVars, cfgVars, moreVars>>

\* Site.reinstall: finally: drop_mariadb_user; then the result or the pending
\* exception leaves the job.
ReinstallDropUser ==
    /\ job = "reinstall_job"
    /\ pc = "drop_mariadb_user"
    /\ \E ok \in BOOLEAN :
        /\ log' = Append(log, Entry("drop_mariadb_user", 0, ok))
        /\ exc' = (exc \/ ~ok)
        /\ pc' = IF exc \/ ~ok THEN "failed" ELSE "done"
    /\ cred' = DropMariadbUser(cred)
    /\ UNCHANGED <<job, installed, snapshot, idx, keep, skip, waitVars, cfgVars, moreVars>>

\* The job's record is closed (success or failure) and the worker is free
\* for the next job.
JobReturns ==
    /\ pc \in {"done", "failed"}
    /\ pc' = "idle"
    /\ job' = "none"
    /\ exc' = FALSE
    /\ log' = <<>>
    /\ snapshot' = <<>>
    /\ idx' = 0
    /\ keep' = {}
    /\ skip' = FALSE
    /\ UNCHANGED <<cred, installed, waitVars, cfgVars, moreVars>>

NextRestore ==
    \/ StartRestoreJob
    \/ DownloadFiles
    \/ RestoreCreateUser
    \/ RestoreCommand
    \/ RestoreDropUser
    \/ DeleteDownloadedFiles
    \/ GetInstalledApps
    \/ RemoveFromInstalledApps
    \/ ClearCache
    \/ Migrate
    \/ FinishingStep
    \/ StartReinstallJob
    \/ ReinstallCreateUser
    \/ ReinstallCommand
    \/ ReinstallDropUser
    \/ JobReturns

----------------------------------------------------------------------------
(* Readiness poller: Site.wait_till_ready *)

WAIT_TIMEOUT == 120

\* Longest time, in seconds, one ready-for-migration call takes in the model.
MaxProbeSeconds == 2

\* The poller is not running.
PollerIdle ==
    /\ wpc = "idle"
    /\ elapsed = 0
    /\ tries = <<>>
    /\ sleeps = 0
    /\ calls = <<>>

\* data = {"tries": []}; start = time.time()
WaitStart ==
    /\ wpc = "idle"
    /\ wpc' = "check"
    /\ elapsed' = 0
    /\ tries' = <<>>
    /\ sleeps' = 0
    /\ calls' = <<>>
    /\ UNCHANGED <<restoreVars, cfgVars, moreVars>>

\* The loop's test against twice the timeout.
WhileCondition_Doubled(e) == e < WAIT_TIMEOUT + WAIT_TIMEOUT

\* while (time.time() - start) < WAIT_TIMEOUT
WhileCondition(e) == e < WAIT_TIMEOUT

\* The loop's test: another attempt, or fall out of the loop to return data.
WaitLoopTest ==
    /\ wpc = "check"
    /\ wpc' = IF WhileCondition(elapsed) THEN "probe" ELSE "done"
    /\ UNCHANGED <<elapsed, tries, sleeps, calls, restoreVars, cfgVars, moreVars>>

\* The attempt without its break: a success is recorded and the loop goes on.
WaitProbe_NoBreak ==
    /\ wpc = "probe"
    /\ \E d \in 0..MaxProbeSeconds, ok \in BOOLEAN :
        /\ elapsed' = elapsed + d
        /\ calls' = Append(calls, ok)
        /\ tries' = Append(tries, ok)
        /\ wpc' = IF ok THEN "check" ELSE "sleep"
    /\ UNCHANGED <<sleeps, restoreVars, cfgVars, moreVars>>

\* try: output = bench_execute("ready-for-migration"); tries.append(output);
\* break.  except Exception as e: tries.append(e.data), and on to the sleep.
\* The call takes d seconds and returns or raises a CommandFailure.
WaitProbe ==
    /\ wpc = "probe"
    /\ \E d \in 0..MaxProbeSeconds, ok \in BOOLEAN :
        /\ elapsed' = elapsed + d
        /\ calls' = Append(calls, ok)
        /\ tries' = Append(tries, ok)
        /\ wpc' = IF ok THEN "done" ELSE "sleep"
    /\ UNCHANGED <<sleeps, restoreVars, cfgVars, moreVars>>

\* time.sleep(1), then back to the loop's test.
WaitSleep ==
    /\ wpc = "sleep"
    /\ elapsed' = elapsed + 1
    /\ sleeps' = sleeps + 1
    /\ wpc' = "check"
    /\ UNCHANGED <<tries, calls, restoreVars, cfgVars, moreVars>>

\* return data: the step is over and the poller can be called again.
WaitReturns ==
    /\ wpc = "done"
    /\ wpc' = "idle"
    /\ UNCHANGED <<elapsed, tries, sleeps, calls, restoreVars, cfgVars, moreVars>>

NextWait ==
    \/ WaitStart
    \/ WaitLoopTest
    \/ WaitProbe
    \/ WaitSleep
    \/ WaitReturns

----------------------------------------------------------------------------
(* Configuration store: Site.update_config, add_domain, remove_domain *)

\* Number of distinct values a plain configuration key takes in the model.
NumVals == 2

\* Longest list of keys to remove handed to update_config in the model.
MaxRemove == 2

\* Longest run of consecutive update_config({}) jobs in the model.
MaxStreak == 2

\* Most add_domain jobs counted per domain in the model.
MaxAdds == 2

Keys == {"domains", "host_name", "db_host"}

PlainKeys == Keys \ {"domains"}

Vals == 1..NumVals

Domains == {"x.com", "y.com"}

\* Lists of domains without repetition: what list(set) produces.
DomainLists == {s \in UNION {[1..n -> Domains] : n \in 0..Cardinality(Domains)} :
                   \A i, j \in 1..Len(s) : i # j => s[i] # s[j]}

EmptyDoc == [k \in {} |-> 0]

\* The documents over a set of keys: "domains" holds a list of domains, every
\* other key a plain value.
DocsOver(S) ==
    {[k \in S |-> IF k = "domains" THEN dl ELSE h[k]] :
        h \in [S \ {"domains"} -> Vals],
        dl \in IF "domains" \in S THEN DomainLists ELSE {<<>>}}

Docs == UNION {DocsOver(S) : S \in SUBSET Keys}

RemoveLists == UNION {[1..n -> Keys] : n \in 0..MaxRemove}

\* dict.get(key, default)
Get(doc, key, default) == IF key \in DOMAIN doc THEN doc[key] ELSE default

\* The document replaced by value instead of updated with it.
Merge_Replaced(doc, v) == v

\* dict.update(value): keys of value overwrite, the other keys stay.
Merge(doc, v) ==
    [k \in DOMAIN doc \cup DOMAIN v |-> IF k \in DOMAIN v THEN v[k] ELSE doc[k]]

\* A pop that leaves the key in place.
Pop_Kept(doc, key) == doc

\* dict.pop(key, None): an absent key is no error.
Pop(doc, key) == [k \in DOMAIN doc \ {key} |-> doc[k]]

\* for key in remove: new_config.pop(key, None)
RECURSIVE PopAll(_, _)
PopAll(doc, keys) ==
    IF keys = <<>> THEN doc ELSE PopAll(Pop(doc, Head(keys)), Tail(keys))

\* update_config popping the removal keys before merging the additions.
UpdateConfig_PopThenMerge(doc, v, rm) ==
    Merge(IF Len(rm) > 0 THEN PopAll(doc, rm) ELSE doc, v)

\* update_config: the document handed to setconfig.
UpdateConfig(doc, v, rm) ==
    LET new_config == Merge(doc, v) IN
    IF Len(rm) > 0 THEN PopAll(new_config, rm) ELSE new_config

\* set(list)
SetOf(list) == Range(list)

\* list(set): every element once, in an order the caller cannot rely on.
ListsOf(set) == {s \in [1..Cardinality(set) -> set] : Range(s) = set}

\* add_domain appending to the stored list instead of going through a set.
AddDomainLists_Appended(doc, d) == {Append(Get(doc, "domains", <<>>), d)}

\* add_domain: the lists update_config may be handed for "domains".
AddDomainLists(doc, d) == ListsOf(SetOf(Get(doc, "domains", <<>>)) \cup {d})

\* remove_domain writing an empty list whatever was stored.
RemoveDomainLists_Cleared(doc, d) == {<<>>}

\* remove_domain: the lists update_config may be handed for "domains".
RemoveDomainLists(doc, d) == ListsOf(SetOf(Get(doc, "domains", <<>>)) \ {d})

DomainsValue(list) == [k \in {"domains"} |-> list]

\* No configuration job is running.
ConfigIdle ==
    /\ cjob = "none"
    /\ cpc = "idle"
    /\ value = EmptyDoc
    /\ remove = <<>>
    /\ domain = ""
    /\ before = EmptyDoc
    /\ clog = <<>>
    /\ origin = EmptyDoc
    /\ streak = 0
    /\ adds = [d \in Domains |-> 0]

IsNoop(v, rm) == v = EmptyDoc /\ rm = <<>>

\* The queue hands the worker an Update Site Configuration job.
StartUpdateConfigJob ==
    /\ cpc = "idle"
    /\ \E v \in Docs, rm \in RemoveLists :
        /\ IsNoop(v, rm) => streak < MaxStreak
        /\ value' = v
        /\ remove' = rm
        /\ streak' = IF IsNoop(v, rm) THEN streak + 1 ELSE 0
        /\ origin' = IF ~IsNoop(v, rm) THEN EmptyDoc
                     ELSE IF streak = 0 THEN config ELSE origin
    /\ cjob' = "update_config_job"
    /\ cpc' = "update_config"
    /\ domain' = ""
    /\ before' = config
    /\ clog' = <<>>
    /\ UNCHANGED <<config, adds, restoreVars, waitVars, moreVars>>

\* update_config_job: self.update_config(value, remove).  The write replaces
\* the file or fails and leaves it as it was.
UpdateConfigStep ==
    /\ cjob = "update_config_job"
    /\ cpc = "update_config"
    /\ \E ok \in BOOLEAN :
        /\ clog' = Append(clog, Entry("update_config", 0, ok))
        /\ config' = IF ok THEN UpdateConfig(config, value, remove) ELSE config
        /\ cpc' = IF ok THEN "done" ELSE "failed"
    /\ UNCHANGED <<cjob, value, remove, domain, before, origin, streak, adds,
                   restoreVars, waitVars, moreVars>>

\* The queue hands the worker an Add Domain job.
StartAddDomain ==
    /\ cpc = "idle"
    /\ \E d \in Domains :
        /\ adds[d] < MaxAdds
        /\ domain' = d
    /\ cjob' = "add_domain"
    /\ cpc' = "update_config"
    /\ value' = EmptyDoc
    /\ remove' = <<>>
    /\ before' = config
    /\ clog' = <<>>
    /\ origin' = EmptyDoc
    /\ streak' = 0
    /\ UNCHANGED <<config, adds, restoreVars, waitVars, moreVars>>

\* add_domain: domains = set(config.get("domains", [])); domains.add(domain);
\* update_config({"domains": list(domains)}).
AddDomainUpdate ==
    /\ cjob = "add_domain"
    /\ cpc = "update_config"
    /\ \E list \in AddDomainLists(config, domain), ok \in BOOLEAN :
        /\ value' = DomainsValue(list)
        /\ clog' = Append(clog, Entry("update_config", 0, ok))
        /\ config' = IF ok THEN UpdateConfig(config, DomainsValue(list), <<>>)
                     ELSE config
        /\ adds' = IF ok THEN [adds EXCEPT ![domain] = @ + 1] ELSE adds
        /\ cpc' = IF ok THEN "setup_nginx" ELSE "failed"
    /\ UNCHANGED <<cjob, remove, domain, before, origin, streak,
                   restoreVars, waitVars, moreVars>>

\* The queue hands the worker a Remove Domain job.
StartRemoveDomain ==
    /\ cpc = "idle"
    /\ \E d \in Domains : domain' = d
    /\ cjob' = "remove_domain"
    /\ cpc' = "update_config"
    /\ value' = EmptyDoc
    /\ remove' = <<>>
    /\ before' = config
    /\ clog' = <<>>
    /\ origin' = EmptyDoc
    /\ streak' = 0
    /\ UNCHANGED <<config, adds, restoreVars, waitVars, moreVars>>

\* remove_domain: domains = set(config.get("domains", []));
\* domains.discard(domain); update_config({"domains": list(domains)}).
RemoveDomainUpdate ==
    /\ cjob = "remove_domain"
    /\ cpc = "update_config"
    /\ \E list \in RemoveDomainLists(config, domain), ok \in BOOLEAN :
        /\ value' = DomainsValue(list)
        /\ clog' = Append(clog, Entry("update_config", 0, ok))
        /\ config' = IF ok THEN UpdateConfig(config, DomainsValue(list), <<>>)
                     ELSE config
        /\ adds' = IF ok THEN [adds EXCEPT ![domain] = 0] ELSE adds
        /\ cpc' = IF ok THEN "setup_nginx" ELSE "failed"
    /\ UNCHANGED <<cjob, remove, domain, before, origin, streak,
                   restoreVars, waitVars, moreVars>>

\* add_domain / remove_domain: self.bench.setup_nginx()
SetupNginx ==
    /\ cjob \in {"add_domain", "remove_domain"}
    /\ cpc = "setup_nginx"
    /\ \E ok \in BOOLEAN :
        /\ clog' = Append(clog, Entry("setup_nginx", 0, ok))
        /\ cpc' = IF ok THEN "reload_nginx" ELSE "failed"
    /\ UNCHANGED <<config, cjob, value, remove, domain, before, origin, streak,
                   adds, restoreVars, waitVars, moreVars>>

\* add_domain / remove_domain: self.bench.server.reload_nginx()
ReloadNginx ==
    /\ cjob \in {"add_domain", "remove_domain"}
    /\ cpc = "reload_nginx"
    /\ \E ok \in BOOLEAN :
        /\ clog' = Append(clog, Entry("reload_nginx", 0, ok))
        /\ cpc' = IF ok THEN "done" ELSE "failed"
    /\ UNCHANGED <<config, cjob, value, remove, domain, before, origin, streak,
                   adds, restoreVars, waitVars, moreVars>>

\* The configuration job's record is closed and the worker is free again.
ConfigJobReturns ==
    /\ cpc \in {"done", "failed"}
    /\ cpc' = "idle"
    /\ cjob' = "none"
    /\ value' = EmptyDoc
    /\ remove' = <<>>
    /\ domain' = ""
    /\ before' = EmptyDoc
    /\ clog' = <<>>
    /\ UNCHANGED <<config, origin, streak, adds, restoreVars, waitVars, moreVars>>

NextDomains ==
    \/ StartAddDomain
    \/ AddDomainUpdate
    \/ StartRemoveDomain
    \/ RemoveDomainUpdate
    \/ SetupNginx
    \/ ReloadNginx
    \/ ConfigJobReturns

NextConfig ==
    \/ StartUpdateConfigJob
    \/ UpdateConfigStep
    \/ ConfigJobReturns

----------------------------------------------------------------------------
(* Rename Site job: Site.rename_job, and the maintenance-mode steps *)

\* No rename job is running; the site is up and its directory bears its name.
RenameIdle ==
    /\ rpc = "idle"
    /\ rlog = <<>>
    /\ new_name = 0
    /\ directory = name
    /\ maintenance = FALSE
    /\ drained = FALSE

\* The queue hands the worker a Rename Site job.
StartRenameJob ==
    /\ rpc = "idle"
    /\ \E n \in Vals : new_name' = n
    /\ rpc' = "enable_maintenance_mode"
    /\ rlog' = <<>>
    /\ drained' = FALSE
    /\ UNCHANGED <<name, directory, maintenance, restoreVars, waitVars, cfgVars, backupVars, tableVars, concVars>>

\* enable_maintenance_mode: bench_execute("set-maintenance-mode on").
EnableMaintenanceMode ==
    /\ rpc = "enable_maintenance_mode"
    /\ \E ok \in BOOLEAN :
        /\ rlog' = Append(rlog, Entry("set_maintenance_mode_on", 0, ok))
        /\ maintenance' = IF ok THEN TRUE ELSE maintenance
        /\ rpc' = IF ok THEN "wait_till_ready" ELSE "failed"
    /\ UNCHANGED <<name, new_name, directory, drained, restoreVars, waitVars, cfgVars, backupVars, tableVars, concVars>>

\* rename_job: self.wait_till_ready() is entered.
RenameWaitStart ==
    /\ rpc = "wait_till_ready"
    /\ WaitStart

\* The last attempt of data["tries"] is an output, not a failure payload.
LastAttemptSucceeded(attempts) == Len(attempts) > 0 /\ attempts[Len(attempts)]

\* if self.config.get("host_name") == f"https://{self.name}"
HostNameIsSiteName(doc, site) == Get(doc, "host_name", 0) = site

\* rename_job: wait_till_ready returns data, which the job does not look at,
\* and the job goes on to the host_name test.
RenameWaitReturns ==
    /\ rpc = "wait_till_ready"
    /\ wpc = "done"
    /\ drained' = LastAttemptSucceeded(tries)
    /\ rlog' = Append(rlog, Entry("wait_till_ready", 0, TRUE))
    /\ rpc' = IF HostNameIsSiteName(config, name) THEN "update_config" ELSE "rename"
    /\ wpc' = "idle"
    /\ elapsed' = 0
    /\ tries' = <<>>
    /\ sleeps' = 0
    /\ calls' = <<>>
    /\ UNCHANGED <<name, new_name, directory, maintenance, restoreVars, cfgVars, backupVars, tableVars, concVars>>

HostNameValue(site) == [k \in {"host_name"} |-> site]

\* rename_job: self.update_config({"host_name": f"https://{new_name}"}).
RenameUpdateConfig ==
    /\ rpc = "update_config"
    /\ \E ok \in BOOLEAN :
        /\ rlog' = Append(rlog, Entry("update_config", 0, ok))
        /\ config' = IF ok THEN UpdateConfig(config, HostNameValue(new_name), <<>>)
                     ELSE config
        /\ rpc' = IF ok THEN "rename" ELSE "failed"
    /\ UNCHANGED <<name, new_name, directory, maintenance, drained,
                   cjob, cpc, value, remove, domain, before, clog, origin, streak, adds,
                   restoreVars, waitVars, backupVars, tableVars, concVars>>

\* rename_job with a cleanup block: a failed move goes on to
\* disable_maintenance_mode.
RenameDirectory_Cleanup ==
    /\ rpc = "rename"
    /\ \E ok \in BOOLEAN :
        /\ rlog' = Append(rlog, Entry("rename", 0, ok))
        /\ directory' = IF ok THEN new_name ELSE directory
        /\ name' = IF ok THEN new_name ELSE name
        /\ rpc' = IF ok THEN "setup_nginx" ELSE "unblock_user"
    /\ UNCHANGED <<new_name, maintenance, drained, restoreVars, waitVars, cfgVars,
                   backupVars, tableVars, concVars>>

\* Site.rename: os.rename(self.directory, <sites>/new_name); self.name = new_name.
RenameDirectory ==
    /\ rpc = "rename"
    /\ \E ok \in BOOLEAN :
        /\ rlog' = Append(rlog, Entry("rename", 0, ok))
        /\ directory' = IF ok THEN new_name ELSE directory
        /\ name' = IF ok THEN new_name ELSE name
        /\ rpc' = IF ok THEN "setup_nginx" ELSE "failed"
    /\ UNCHANGED <<new_name, maintenance, drained, restoreVars, waitVars, cfgVars, backupVars, tableVars, concVars>>

\* rename_job: self.bench.setup_nginx()
RenameSetupNginx ==
    /\ rpc = "setup_nginx"
    /\ \E ok \in BOOLEAN :
        /\ rlog' = Append(rlog, Entry("setup_nginx", 0, ok))
        /\ rpc' = IF ok THEN "reload_nginx" ELSE "failed"
    /\ UNCHANGED <<name, new_name, directory, maintenance, drained,
                   restoreVars, waitVars, cfgVars, backupVars, tableVars, concVars>>

\* rename_job: self.bench.server.reload_nginx(); disable_maintenance_mode is next.
RenameReloadNginx ==
    /\ rpc = "reload_nginx"
    /\ \E ok \in BOOLEAN :
        /\ rlog' = Append(rlog, Entry("reload_nginx", 0, ok))
        /\ rpc' = IF ok THEN "unblock_user" ELSE "failed"
    /\ UNCHANGED <<name, new_name, directory, maintenance, drained,
                   restoreVars, waitVars, cfgVars, backupVars, tableVars, concVars>>

\* disable_maintenance_mode with no except clause around the unblock command.
UnblockUser_Unhandled ==
    /\ rpc = "unblock_user"
    /\ \E ok \in BOOLEAN :
        /\ rlog' = Append(rlog, Entry("unblock_user", 0, ok))
        /\ rpc' = IF ok THEN "set_maintenance_mode_off" ELSE "failed"
    /\ UNCHANGED <<name, new_name, directory, maintenance, drained,
                   restoreVars, waitVars, cfgVars, backupVars, tableVars, concVars>>

\* disable_maintenance_mode: try: bench_execute("execute frappe.modules.
\* patch_handler.block_user --args False,") except Exception: pass.
UnblockUser ==
    /\ rpc = "unblock_user"
    /\ \E ok \in BOOLEAN :
        /\ rlog' = Append(rlog, Entry("unblock_user", 0, ok))
    /\ rpc' = "set_maintenance_mode_off"
    /\ UNCHANGED <<name, new_name, directory, maintenance, drained,
                   restoreVars, waitVars, cfgVars, backupVars, tableVars, concVars>>

\* disable_maintenance_mode: return bench_execute("set-maintenance-mode off").
SetMaintenanceModeOff ==
    /\ rpc = "set_maintenance_mode_off"
    /\ \E ok \in BOOLEAN :
        /\ rlog' = Append(rlog, Entry("set_maintenance_mode_off", 0, ok))
        /\ maintenance' = IF ok THEN FALSE ELSE maintenance
        /\ rpc' = IF ok THEN "enable_scheduler" ELSE "failed"
    /\ UNCHANGED <<name, new_name, directory, drained, restoreVars, waitVars, cfgVars, backupVars, tableVars, concVars>>

\* rename_job: self.enable_scheduler()
RenameEnableScheduler ==
    /\ rpc = "enable_scheduler"
    /\ \E ok \in BOOLEAN :
        /\ rlog' = Append(rlog, Entry("enable_scheduler", 0, ok))
        /\ rpc' = IF ok THEN "done" ELSE "failed"
    /\ UNCHANGED <<name, new_name, directory, maintenance, drained,
                   restoreVars, waitVars, cfgVars, backupVars, tableVars, concVars>>

\* The job's record is closed and the worker is free for the next job.
RenameJobReturns ==
    /\ rpc \in {"done", "failed"}
    /\ rpc' = "idle"
    /\ rlog' = <<>>
    /\ new_name' = 0
    /\ drained' = FALSE
    /\ UNCHANGED <<name, directory, maintenance, restoreVars, waitVars, cfgVars, backupVars, tableVars, concVars>>

NextRename ==
    \/ StartRenameJob
    \/ EnableMaintenanceMode
    \/ RenameWaitStart
    \/ WaitLoopTest
    \/ WaitProbe
    \/ WaitSleep
    \/ RenameWaitReturns
    \/ RenameUpdateConfig
    \/ RenameDirectory
    \/ RenameSetupNginx
    \/ RenameReloadNginx
    \/ UnblockUser
    \/ SetMaintenanceModeOff
    \/ RenameEnableScheduler
    \/ RenameJobReturns

----------------------------------------------------------------------------
(* Backup Site step: Site.backup and Site.fetch_latest_backup *)

MaxFiles == 3
NumMtimes == 2

Mtimes == 1..NumMtimes

\* File names are sequences of pieces, so that endswith can be computed.
Prefix == "20261101_000000-site-"

Tails ==
    { <<"database", ".sql.gz">>, <<"database", "-enc", ".sql.gz">>,
      <<"private-", "files", ".tar">>, <<"private-", "files", "-enc", ".tar">>,
      <<"files", ".tar">>, <<"files", "-enc", ".tar">>,
      <<"site_config_backup", ".json">> }

FileNames == {<<Prefix>> \o t : t \in Tails}

Files == [name : FileNames, mtime : Mtimes]

Listings == UNION {[1..n -> Files] : n \in 0..MaxFiles}

\* str.endswith
EndsWith(n, suffix) ==
    /\ Len(suffix) <= Len(n)
    /\ SubSeq(n, Len(n) - Len(suffix) + 1, Len(n)) = suffix

\* The if/elif chain of fetch_latest_backup: which list a file is appended to.
Classify(n) ==
    IF EndsWith(n, <<"database", ".sql.gz">>)
       \/ EndsWith(n, <<"database", "-enc", ".sql.gz">>)
    THEN "database"
    ELSE IF EndsWith(n, <<"private-", "files", ".tar">>)
            \/ EndsWith(n, <<"private-", "files", "-enc", ".tar">>)
    THEN "private"
    ELSE IF EndsWith(n, <<"files", ".tar">>) \/ EndsWith(n, <<"files", "-enc", ".tar">>)
    THEN "public"
    ELSE "none"

\* databases, privates, publics: the indices of the files appended to a list.
\* The lists are filled in listing order.
Candidates(list, role) == {i \in 1..Len(list) : Classify(list[i].name) = role}

\* The first candidate in place of the newest one.
MaxByMtime_First(list, cands) == CHOOSE i \in cands : \A j \in cands : i <= j

\* max(cands, key=os.path.getmtime): the first of the candidates with the
\* greatest modification time.
MaxByMtime(list, cands) ==
    CHOOSE i \in cands :
        \A j \in cands :
            \/ list[j].mtime < list[i].mtime
            \/ list[j].mtime = list[i].mtime /\ i <= j

\* with_files = "--with-files" if with_files else ""
WithFilesFlag(requested) == IF requested THEN "--with-files" ELSE ""

\* Every flag taken for true.
Truthy_Always(flag) == TRUE

\* if with_files: the truth value of the flag string.
Truthy(flag) == flag # ""

\* The roles fetch_latest_backup takes the max of.
RequiredRoles(flag) ==
    IF Truthy(flag) THEN {"database", "private", "public"} ELSE {"database"}

NoBackups == [r \in {} |-> 0]

BackupIdle ==
    /\ bpc = "idle"
    /\ with_files = FALSE
    /\ listing = <<>>
    /\ blog = <<>>
    /\ backups = NoBackups

notBackupVars == <<restoreVars, waitVars, cfgVars, renameVars, tableVars, concVars>>

\* backup(with_files) is called.
StartBackup ==
    /\ bpc = "idle"
    /\ with_files' \in BOOLEAN
    /\ bpc' = "backup"
    /\ blog' = <<>>
    /\ backups' = NoBackups
    /\ UNCHANGED <<listing, notBackupVars>>

\* backup: self.bench_execute(f"backup {with_files}"). What the backup
\* directory holds after a successful run is up to the command.
BackupCommand ==
    /\ bpc = "backup"
    /\ \E ok \in BOOLEAN :
        /\ blog' = Append(blog, Entry("backup", WithFilesFlag(with_files), ok))
        /\ bpc' = IF ok THEN "fetch_latest_backup" ELSE "failed"
        /\ listing' \in IF ok THEN Listings ELSE {listing}
    /\ UNCHANGED <<with_files, backups, notBackupVars>>

\* backup: return self.fetch_latest_backup(with_files=with_files). max of an
\* empty list raises ValueError.
FetchLatestBackup ==
    /\ bpc = "fetch_latest_backup"
    /\ LET roles == RequiredRoles(WithFilesFlag(with_files))
       IN  IF \E r \in roles : Candidates(listing, r) = {}
           THEN /\ bpc' = "failed"
                /\ backups' = NoBackups
           ELSE /\ bpc' = "done"
                /\ backups' = [r \in roles |-> MaxByMtime(listing, Candidates(listing, r))]
    /\ UNCHANGED <<with_files, listing, blog, notBackupVars>>

\* The step's record is closed.
BackupReturns ==
    /\ bpc \in {"done", "failed"}
    /\ bpc' = "idle"
    /\ with_files' = FALSE
    /\ blog' = <<>>
    /\ backups' = NoBackups
    /\ listing' = <<>>
    /\ UNCHANGED notBackupVars

NextBackup ==
    \/ StartBackup
    \/ BackupCommand
    \/ FetchLatestBackup
    \/ BackupReturns

----------------------------------------------------------------------------
(* Table steps: clear_backup_directory, tablewise_backup, restore_touched_tables *)

NumTables == 3
MaxManifest == 2

TableNames == {"tab" \o ToString(i) : i \in 1..NumTables}

\* touched_tables.json holds a list: order and repetition are the writer's.
Manifests == UNION {[1..n -> TableNames] : n \in 0..MaxManifest}

\* output.split("\n"): the output's lines; the split of "" is [""].
Split(lines) == IF lines = <<>> THEN <<"">> ELSE lines

\* The file is taken to be there whatever the directory holds.
StagedFileExists_Always(files, table) == TRUE

\* os.path.exists(backup_file) for <table>.sql in self.backup_directory.
StagedFileExists(files, table) == table \in files

\* What is left of the directory's files when rmtree is not called.
ClearedFiles_Kept(files) == files

\* shutil.rmtree(self.backup_directory): the directory goes with all its files.
ClearedFiles(files) == {}

\* No table step is running.
TablesIdle ==
    /\ tpc = "idle"
    /\ tstep = "none"
    /\ staged0 = {}
    /\ tlist = <<>>
    /\ tidx = 0
    /\ record = {}
    /\ tlog = <<>>
    /\ prev = "none"

notTableVars == <<restoreVars, waitVars, cfgVars, renameVars, backupVars, concVars>>

tableFiles == <<present, manifest>>

\* clear_backup_directory is called.
StartClearBackupDirectory ==
    /\ tpc = "idle"
    /\ tstep' = "clear_backup_directory"
    /\ tpc' = IF dir_exists THEN "rmtree" ELSE "mkdir"
    /\ staged0' = staged
    /\ UNCHANGED <<dir_exists, staged, tlist, tidx, record, tlog, prev, tableFiles,
                   notTableVars>>

\* clear_backup_directory: shutil.rmtree(self.backup_directory). A failing
\* rmtree may have removed some of the files already.
ClearRmtree ==
    /\ tpc = "rmtree"
    /\ \E ok \in BOOLEAN :
        /\ tlog' = Append(tlog, Entry("rmtree", "", ok))
        /\ IF ok
           THEN /\ dir_exists' = FALSE
                /\ staged' = ClearedFiles(staged)
                /\ tpc' = "mkdir"
           ELSE /\ dir_exists' = dir_exists
                /\ staged' \in SUBSET staged
                /\ tpc' = "failed"
    /\ UNCHANGED <<tstep, staged0, tlist, tidx, record, prev, tableFiles, notTableVars>>

\* clear_backup_directory: os.mkdir(self.backup_directory)
ClearMkdir ==
    /\ tpc = "mkdir"
    /\ \E ok \in BOOLEAN :
        /\ tlog' = Append(tlog, Entry("mkdir", "", ok))
        /\ dir_exists' = IF ok THEN TRUE ELSE dir_exists
        /\ tpc' = IF ok THEN "done" ELSE "failed"
    /\ UNCHANGED <<tstep, staged, staged0, tlist, tidx, record, prev, tableFiles,
                   notTableVars>>

\* tablewise_backup is called: the tables property runs SHOW TABLES and
\* splits its output.
StartTablewiseBackup ==
    /\ tpc = "idle"
    /\ tstep' = "tablewise_backup"
    /\ staged0' = staged
    /\ \E ok \in BOOLEAN :
        /\ tlog' = Append(tlog, Entry("show_tables", "", ok))
        /\ IF ok
           THEN /\ tlist' \in {Split(lines) : lines \in ListsOf(present)}
                /\ tpc' = "dump"
           ELSE /\ tlist' = <<>>
                /\ tpc' = "failed"
    /\ tidx' = 0
    /\ record' = {}
    /\ UNCHANGED <<dir_exists, staged, prev, tableFiles, notTableVars>>

\* tablewise_backup, one turn of the loop: mysqldump ... '{table}' >
\* '{backup_file}'. The shell creates the file before mysqldump runs, and
\* cannot when the directory is missing; mysqldump fails for a name that is
\* not a table.
DumpTable ==
    /\ tpc = "dump"
    /\ tidx < Len(tlist)
    /\ LET table == tlist[tidx + 1]
       IN  \E ok \in (IF dir_exists /\ table \in present THEN BOOLEAN ELSE {FALSE}) :
            /\ tlog' = Append(tlog, Entry("mysqldump", table, ok))
            /\ staged' = IF dir_exists THEN staged \cup {table} ELSE staged
            /\ record' = IF ok THEN record \cup {table} ELSE record
            /\ tidx' = IF ok THEN tidx + 1 ELSE tidx
            /\ tpc' = IF ok THEN "dump" ELSE "failed"
    /\ UNCHANGED <<tstep, dir_exists, staged0, tlist, prev, tableFiles, notTableVars>>

\* tablewise_backup / restore_touched_tables: the loop is over; return data.
TableLoopEnds ==
    /\ tpc \in {"dump", "replay"}
    /\ tidx = Len(tlist)
    /\ tpc' = "done"
    /\ UNCHANGED <<tstep, dir_exists, staged, staged0, tlist, tidx, record, tlog, prev,
                   tableFiles, notTableVars>>

\* restore_touched_tables is called: the touched_tables property opens and
\* loads touched_tables.json.
StartRestoreTouchedTables ==
    /\ tpc = "idle"
    /\ tstep' = "restore_touched_tables"
    /\ staged0' = staged
    /\ \E ok \in BOOLEAN :
        /\ tlog' = Append(tlog, Entry("load_touched_tables", "", ok))
        /\ tlist' = IF ok THEN manifest ELSE <<>>
        /\ tpc' = IF ok THEN "replay" ELSE "failed"
    /\ tidx' = 0
    /\ record' = {}
    /\ UNCHANGED <<dir_exists, staged, prev, tableFiles, notTableVars>>

\* restore_touched_tables, one turn of the loop: if the staged file exists,
\* mysql ... < '{backup_file}' and data["tables"][table] = output.
ReplayTable ==
    /\ tpc = "replay"
    /\ tidx < Len(tlist)
    /\ LET table == tlist[tidx + 1]
       IN  IF dir_exists /\ StagedFileExists(staged, table)
           THEN \E ok \in BOOLEAN :
                    /\ tlog' = Append(tlog, Entry("mysql", table, ok))
                    /\ record' = IF ok THEN record \cup {table} ELSE record
                    /\ tidx' = IF ok THEN tidx + 1 ELSE tidx
                    /\ tpc' = IF ok THEN "replay" ELSE "failed"
           ELSE /\ tidx' = tidx + 1
                /\ UNCHANGED <<tlog, record, tpc>>
    /\ UNCHANGED <<tstep, dir_exists, staged, staged0, tlist, prev, tableFiles,
                   notTableVars>>

\* The step's record is closed.
TableStepReturns ==
    /\ tpc \in {"done", "failed"}
    /\ prev' = IF tpc = "done" THEN tstep ELSE "none"
    /\ tpc' = "idle"
    /\ tstep' = "none"
    /\ staged0' = {}
    /\ tlist' = <<>>
    /\ tidx' = 0
    /\ record' = {}
    /\ tlog' = <<>>
    /\ UNCHANGED <<dir_exists, staged, tableFiles, notTableVars>>

NextTables ==
    \/ StartClearBackupDirectory
    \/ ClearRmtree
    \/ ClearMkdir
    \/ StartTablewiseBackup
    \/ DumpTable
    \/ TableLoopEnds
    \/ StartRestoreTouchedTables
    \/ ReplayTable
    \/ TableStepReturns

----------------------------------------------------------------------------
(* Two add_domain jobs against one site: Site.add_domain over Site.update_config *)

Workers == {1, 2}

Other(w) == CHOOSE v \in Workers : v # w

\* The job of worker w has started and not ended.
Active(w) == kpc[w] \notin {"idle", "done", "failed"}

\* The stored list not looked at.
DomainsRead_Ignored(doc) == {}

\* add_domain: set(self.config.get("domains", []))
DomainsRead(doc) == SetOf(Get(doc, "domains", <<>>))

ConcurrentIdle ==
    /\ kpc = [w \in Workers |-> "idle"]
    /\ kdomain = [w \in Workers |-> ""]
    /\ klist = [w \in Workers |-> <<>>]
    /\ kdoc = [w \in Workers |-> EmptyDoc]
    /\ overlapped = FALSE

notConcVars == <<restoreVars, waitVars, renameVars, backupVars, tableVars,
                 cjob, cpc, value, remove, domain, before, clog, origin, streak, adds>>

\* A worker takes an Add Domain job: domains = set(...); domains.add(domain).
ConcurrentStartAddDomain(w) ==
    /\ kpc[w] = "idle"
    /\ \E d \in Domains :
        /\ kdomain' = [kdomain EXCEPT ![w] = d]
        /\ \E list \in ListsOf(DomainsRead(config) \cup {d}) :
            klist' = [klist EXCEPT ![w] = list]
    /\ kpc' = [kpc EXCEPT ![w] = "update_config"]
    /\ overlapped' = (overlapped \/ Active(Other(w)))
    /\ UNCHANGED <<kdoc, config, notConcVars>>

\* update_config: new_config = self.config
ConcurrentReadConfig(w) ==
    /\ kpc[w] = "update_config"
    /\ kdoc' = [kdoc EXCEPT ![w] = config]
    /\ kpc' = [kpc EXCEPT ![w] = "setconfig"]
    /\ UNCHANGED <<kdomain, klist, overlapped, config, notConcVars>>

\* update_config: new_config.update(value); self.setconfig(new_config)
ConcurrentSetConfig(w) ==
    /\ kpc[w] = "setconfig"
    /\ \E ok \in BOOLEAN :
        /\ config' = IF ok THEN UpdateConfig(kdoc[w], DomainsValue(klist[w]), <<>>)
                     ELSE config
        /\ kpc' = [kpc EXCEPT ![w] = IF ok THEN "setup_nginx" ELSE "failed"]
    /\ UNCHANGED <<kdomain, klist, kdoc, overlapped, notConcVars>>

\* add_domain: self.bench.setup_nginx()
ConcurrentSetupNginx(w) ==
    /\ kpc[w] = "setup_nginx"
    /\ \E ok \in BOOLEAN :
        kpc' = [kpc EXCEPT ![w] = IF ok THEN "reload_nginx" ELSE "failed"]
    /\ UNCHANGED <<kdomain, klist, kdoc, overlapped, config, notConcVars>>

\* add_domain: self.bench.server.reload_nginx()
ConcurrentReloadNginx(w) ==
    /\ kpc[w] = "reload_nginx"
    /\ \E ok \in BOOLEAN :
        kpc' = [kpc EXCEPT ![w] = IF ok THEN "done" ELSE "failed"]
    /\ UNCHANGED <<kdomain, klist, kdoc, overlapped, config, notConcVars>>

\* The records of the jobs that ended are closed once no job is running.
ConcurrentJobsReturn ==
    /\ \A w \in Workers : ~Active(w)
    /\ \E w \in Workers : kpc[w] # "idle"
    /\ kpc' = [w \in Workers |-> "idle"]
    /\ kdomain' = [w \in Workers |-> ""]
    /\ klist' = [w \in Workers |-> <<>>]
    /\ kdoc' = [w \in Workers |-> EmptyDoc]
    /\ overlapped' = FALSE
    /\ UNCHANGED <<config, notConcVars>>

NextConcurrent ==
    \/ \E w \in Workers : ConcurrentStartAddDomain(w)
    \/ \E w \in Workers : ConcurrentReadConfig(w)
    \/ \E w \in Workers : ConcurrentSetConfig(w)
    \/ \E w \in Workers : ConcurrentSetupNginx(w)
    \/ \E w \in Workers : ConcurrentReloadNginx(w)
    \/ ConcurrentJobsReturn

----------------------------------------------------------------------------
(* Specifications *)

InitRestore ==
    /\ WorkerIdle
    /\ installed \in AppLists
    /\ PollerIdle
    /\ ConfigIdle
    /\ config = EmptyDoc
    /\ name = 1
    /\ RenameIdle
    /\ BackupIdle
    /\ TablesIdle
    /\ present = {}
    /\ manifest = <<>>
    /\ dir_exists = FALSE
    /\ staged = {}
    /\ ConcurrentIdle

InitWait ==
    /\ WorkerIdle
    /\ installed = <<>>
    /\ PollerIdle
    /\ ConfigIdle
    /\ config = EmptyDoc
    /\ name = 1
    /\ RenameIdle
    /\ BackupIdle
    /\ TablesIdle
    /\ present = {}
    /\ manifest = <<>>
    /\ dir_exists = FALSE
    /\ staged = {}
    /\ ConcurrentIdle

InitConfig ==
    /\ WorkerIdle
    /\ installed = <<>>
    /\ PollerIdle
    /\ ConfigIdle
    /\ config \in Docs
    /\ name = 1
    /\ RenameIdle
    /\ BackupIdle
    /\ TablesIdle
    /\ present = {}
    /\ manifest = <<>>
    /\ dir_exists = FALSE
    /\ staged = {}
    /\ ConcurrentIdle

InitRename ==
    /\ WorkerIdle
    /\ installed = <<>>
    /\ PollerIdle
    /\ ConfigIdle
    /\ config \in {EmptyDoc} \cup DocsOver({"host_name"})
    /\ name \in Vals
    /\ RenameIdle
    /\ BackupIdle
    /\ TablesIdle
    /\ present = {}
    /\ manifest = <<>>
    /\ dir_exists = FALSE
    /\ staged = {}
    /\ ConcurrentIdle

InitBackup ==
    /\ WorkerIdle
    /\ installed = <<>>
    /\ PollerIdle
    /\ ConfigIdle
    /\ config = EmptyDoc
    /\ name = 1
    /\ RenameIdle
    /\ BackupIdle
    /\ TablesIdle
    /\ present = {}
    /\ manifest = <<>>
    /\ dir_exists = FALSE
    /\ staged = {}
    /\ ConcurrentIdle

InitTables ==
    /\ WorkerIdle
    /\ installed = <<>>
    /\ PollerIdle
    /\ ConfigIdle
    /\ config = EmptyDoc
    /\ name = 1
    /\ RenameIdle
    /\ BackupIdle
    /\ TablesIdle
    /\ present \in SUBSET TableNames
    /\ manifest \in Manifests
    /\ dir_exists \in BOOLEAN
    /\ staged \in (IF dir_exists THEN SUBSET TableNames ELSE {{}})
    /\ ConcurrentIdle

\* The worker runs restore and reinstall jobs, one at a time.
SpecRestore == InitRestore /\ [][NextRestore]_vars

\* The worker runs the readiness poller.
SpecWait == InitWait /\ [][NextWait]_vars

\* The poller's thread keeps running: a call that can return does return, and
\* the loop's test and the sleep are not held up for ever.
SpecWaitFair ==
    InitWait /\ [][NextWait]_vars /\ WF_vars(WaitLoopTest \/ WaitProbe \/ WaitSleep)

\* The table steps, one at a time, in any order.
SpecTables == InitTables /\ [][NextTables]_vars

\* Two workers, each running add_domain jobs against the same site.
SpecConcurrent == InitWait /\ [][NextConcurrent]_vars

\* Site.backup, one call at a time.
SpecBackup == InitBackup /\ [][NextBackup]_vars

\* The worker runs rename jobs, one at a time.
SpecRename == InitRename /\ [][NextRename]_vars

\* The worker runs update_config jobs, one at a time.
SpecConfig == InitConfig /\ [][NextConfig]_vars

\* The worker runs add_domain and remove_domain jobs, one at a time.
SpecDomains == InitConfig /\ [][NextDomains]_vars

----------------------------------------------------------------------------
(* Properties of the restore and reinstall workflows *)

Count(op) == Cardinality(Called(op))

Succeeded(op) == \E i \in Called(op) : log[i].ok

Failed(op) == \E i \in Called(op) : ~log[i].ok

MigrateOps == {MigrateCommand(TRUE), MigrateCommand(FALSE)}

UninstallOps == {"get_installed_apps", "remove_from_installed_apps", "clear_cache"}

FinishingOps == {"set_admin_password", "enable_scheduler", "setup_nginx",
                 "reload_nginx", "list_apps"}

\* Everything restore_job does after the restore step.
AfterRestoreOps ==
    {"delete_downloaded_files"} \cup UninstallOps \cup MigrateOps \cup FinishingOps

\* The restore (or reinstall) step is executing.
InCredentialStep == pc \in {"create_mariadb_user", "restore", "reinstall", "drop_mariadb_user"}

RestoreStepFailed ==
    Failed("create_mariadb_user") \/ Failed("restore") \/ Failed("drop_mariadb_user")

UninstallStepFailed == \E op \in UninstallOps : Failed(op)

MigrateFailed == \E op \in MigrateOps : Failed(op)

\* C1: in restore_job, once create_mariadb_user has succeeded, drop_mariadb_user
\* is called at most once, exactly once by the time the restore step is left
\* (whether the restore command returned or raised), and before every later
\* operation of the job.
C1_DropExactlyOnceBeforeLaterSteps ==
    (job = "restore_job" /\ Succeeded("create_mariadb_user")) =>
        /\ Count("drop_mariadb_user") <= 1
        /\ ~InCredentialStep => Count("drop_mariadb_user") = 1
        /\ \A i \in 1..Len(log) :
              log[i].op \in AfterRestoreOps =>
                  \E j \in Called("drop_mariadb_user") : j < i

\* C1 witness: the restore command raised, the job is over and the teardown ran once.
C1_Witness ==
    /\ job = "restore_job"
    /\ pc = "failed"
    /\ Succeeded("create_mariadb_user")
    /\ Failed("restore")
    /\ Count("drop_mariadb_user") = 1
    /\ Count("delete_downloaded_files") = 1

C3_DeleteDownloadedFilesAlways ==
    (job = "restore_job" /\ Succeeded("download_files")) =>
        /\ Count("delete_downloaded_files") <= 1
        /\ (~InCredentialStep /\ pc # "delete_downloaded_files") =>
              Count("delete_downloaded_files") = 1
        /\ (RestoreStepFailed /\ ~InCredentialStep /\ pc # "delete_downloaded_files") =>
              /\ pc = "failed"
              /\ log[Len(log)].op = "delete_downloaded_files"

\* C3 witness: provisioning the credential failed, the files were deleted once
\* and the job failed.
C3_Witness ==
    /\ job = "restore_job"
    /\ pc = "failed"
    /\ Failed("create_mariadb_user")
    /\ Count("delete_downloaded_files") = 1
    /\ Count("drop_mariadb_user") = 0

\* C4: a failure of the restore, app-reconciliation or migrate step fails
\* restore_job and no later step runs; apps already removed stay removed.
C4_FailureStopsTheJob ==
    job = "restore_job" =>
        /\ RestoreStepFailed =>
              /\ pc \in {"drop_mariadb_user", "delete_downloaded_files", "failed"}
              /\ \A i \in 1..Len(log) :
                    log[i].op \notin UninstallOps \cup MigrateOps \cup FinishingOps
        /\ UninstallStepFailed =>
              /\ pc = "failed"
              /\ \A i \in 1..Len(log) : log[i].op \notin MigrateOps \cup FinishingOps
        /\ MigrateFailed =>
              /\ pc = "failed"
              /\ \A i \in 1..Len(log) : log[i].op \notin FinishingOps
        /\ \A i \in Called("remove_from_installed_apps") :
              log[i].ok => log[i].arg \notin Range(installed)

\* C4 witness: migrate failed after an app had been removed.
C4_Witness ==
    /\ job = "restore_job"
    /\ pc = "failed"
    /\ MigrateFailed
    /\ Succeeded("remove_from_installed_apps")
    /\ Len(installed) < Len(snapshot)

\* The uninstall step has run to its end without a failure.
UninstallCompleted ==
    /\ job = "restore_job"
    /\ Succeeded("get_installed_apps")
    /\ ~UninstallStepFailed
    /\ pc \notin {"remove_from_installed_apps", "clear_cache"}

RemovalsOf(app) ==
    {i \in Called("remove_from_installed_apps") : log[i].arg = app}

\* C5: uninstall_unavailable_apps issues no command for an app of the keep-set
\* and at most one remove per app; once it has completed, every installed app
\* outside the keep-set was removed once, each remove directly followed by a
\* clear-cache (and no other clear-cache), and the installed set is the
\* previously installed set intersected with the keep-set.
C5_UninstallsExactlyUnavailable ==
    /\ \A app \in Apps :
          /\ Cardinality(RemovalsOf(app)) <= 1
          /\ app \in keep => RemovalsOf(app) = {}
          /\ RemovalsOf(app) # {} => app \in Range(snapshot)
    /\ UninstallCompleted =>
          /\ \A app \in Range(snapshot) \ keep : Cardinality(RemovalsOf(app)) = 1
          /\ \A i \in Called("remove_from_installed_apps") :
                i < Len(log) /\ log[i + 1].op = "clear_cache"
          /\ Count("clear_cache") = Count("remove_from_installed_apps")
          /\ Range(installed) = Range(snapshot) \cap keep

\* C5 witness: three apps installed, two of them kept, the third removed.
C5_Witness ==
    /\ UninstallCompleted
    /\ pc = "migrate"
    /\ Len(snapshot) = 3
    /\ Cardinality(Range(snapshot) \cap keep) = 2
    /\ Count("remove_from_installed_apps") = 1
    /\ Len(installed) = 2

----------------------------------------------------------------------------
(* Properties of the readiness poller *)

Failures(s) == {i \in 1..Len(s) : ~s[i]}

\* C6: wait_till_ready records one attempt per ready-for-migration call, in
\* call order; every attempt but the last is a failure, a success ends the
\* loop, and k failures followed by a success make k + 1 attempts and k
\* one-second sleeps.
C6_AttemptsEndAtFirstSuccess ==
    /\ tries = calls
    /\ \A i \in 1..Len(tries) : (i < Len(tries)) => ~tries[i]
    /\ (Len(tries) > 0 /\ tries[Len(tries)]) =>
          /\ wpc \in {"done", "idle"}
          /\ sleeps = Len(tries) - 1
    /\ sleeps = Cardinality(Failures(tries)) - (IF wpc = "sleep" THEN 1 ELSE 0)
    /\ elapsed >= sleeps

\* C6 witness: the probe failed twice and then succeeded.
C6_Witness ==
    /\ wpc = "done"
    /\ tries = <<FALSE, FALSE, TRUE>>
    /\ sleeps = 2
    /\ elapsed >= 2
    /\ elapsed < WAIT_TIMEOUT

C7_Safety ==
    /\ wpc \in {"idle", "check", "probe", "sleep", "done"}
    /\ wpc = "probe" => ~(elapsed > WAIT_TIMEOUT)
    /\ Len(tries) <= WAIT_TIMEOUT
    /\ (wpc = "done" /\ Failures(tries) = 1..Len(tries)) => elapsed >= WAIT_TIMEOUT

\* C7: no attempt starts after the elapsed time has exceeded WAIT_TIMEOUT; a
\* call that ends with every attempt failed ends because the time is up, by
\* returning the attempts (the step has no raising exit); and a started call
\* always comes to its return.
C7_TimeoutReturnsAttempts ==
    /\ []C7_Safety
    /\ (wpc = "check") ~> (wpc = "done")

\* C7 witness: the probe failed until the time was up and the attempts were returned.
C7_Witness ==
    /\ wpc = "done"
    /\ Len(tries) > 0
    /\ Failures(tries) = 1..Len(tries)
    /\ elapsed >= WAIT_TIMEOUT
    /\ sleeps = Len(tries)

----------------------------------------------------------------------------
(* Properties of the configuration store *)

UpdateDone == cjob = "update_config_job" /\ cpc = "done"

\* A key the call neither adds nor removes is as it was.
Preserved(k) ==
    /\ k \in DOMAIN config <=> k \in DOMAIN before
    /\ k \in DOMAIN before => config[k] = before[k]

\* C8 as stated: after update_config(additions, removals) the document holds
\* every key of additions with its new value, omits every key of removals that
\* additions does not re-add, and preserves every other key.
C8_AsStated ==
    UpdateDone =>
        /\ \A k \in DOMAIN value : k \in DOMAIN config /\ config[k] = value[k]
        /\ \A k \in Range(remove) \ DOMAIN value : k \notin DOMAIN config
        /\ \A k \in Keys \ (DOMAIN value \cup Range(remove)) : Preserved(k)

\* C8 amended: after update_config(additions, removals) the document holds
\* every key of additions that is not in removals with its new value, omits
\* every key of removals (also one that additions holds), and preserves every
\* other key with its value.
C8_MergeThenRemove ==
    UpdateDone =>
        /\ \A k \in DOMAIN value \ Range(remove) :
              k \in DOMAIN config /\ config[k] = value[k]
        /\ \A k \in Range(remove) : k \notin DOMAIN config
        /\ \A k \in Keys \ (DOMAIN value \cup Range(remove)) : Preserved(k)

\* C8 witness: one call overwrote a key, dropped a key it was also asked to
\* add, and left a third key alone.
C8_Witness ==
    /\ UpdateDone
    /\ "host_name" \in DOMAIN value /\ "host_name" \in DOMAIN before
    /\ before["host_name"] # value["host_name"]
    /\ "host_name" \in DOMAIN config
    /\ config["host_name"] = value["host_name"]
    /\ "db_host" \in DOMAIN value /\ "db_host" \in Range(remove)
    /\ "db_host" \notin DOMAIN config
    /\ "domains" \in DOMAIN before /\ "domains" \notin DOMAIN value
    /\ "domains" \in DOMAIN config
    /\ config["domains"] = before["domains"]

\* C9: update_config with no additions and no removals leaves the stored
\* document as it was, from any document, however often the call is repeated.
C9_EmptyUpdateIsIdempotent ==
    /\ (cjob = "update_config_job" /\ IsNoop(value, remove)) => config = before
    /\ streak > 0 => config = origin

\* C9 witness: the second of two empty updates in a row has written a
\* document with all three keys.
C9_Witness ==
    /\ UpdateDone
    /\ IsNoop(value, remove)
    /\ streak = 2
    /\ DOMAIN config = Keys
    /\ config = origin
    /\ Len(config["domains"]) = 2

Occurrences(list, d) == {i \in 1..Len(list) : list[i] = d}

StoredDomains == Get(config, "domains", <<>>)

\* C10: the stored domains list never holds a domain twice, and a domain that
\* add_domain wrote once or more since it was last removed is in the list
\* exactly once.
C10_AddDomainIsIdempotent ==
    /\ \A d \in Domains : Cardinality(Occurrences(StoredDomains, d)) <= 1
    /\ \A d \in Domains :
          adds[d] >= 1 => Cardinality(Occurrences(StoredDomains, d)) = 1

\* C10 witness: x.com was added twice, y.com in between, and the list holds
\* each of them once.
C10_Witness ==
    /\ cjob = "add_domain"
    /\ cpc = "done"
    /\ domain = "x.com"
    /\ adds["x.com"] = 2
    /\ adds["y.com"] = 1
    /\ Len(StoredDomains) = 2
    /\ Cardinality(Occurrences(StoredDomains, "x.com")) = 1
    /\ "x.com" \in SetOf(Get(before, "domains", <<>>))

----------------------------------------------------------------------------
(* Properties of remove_domain *)

DomainsBefore == Get(before, "domains", <<>>)

Succeeded_c(op) == \E i \in 1..Len(clog) : clog[i].op = op /\ clog[i].ok

\* remove_domain is running for a domain the stored list did not hold.
RemovingAbsentDomain == cjob = "remove_domain" /\ domain \notin SetOf(DomainsBefore)

\* The calls of a domain job that ran to its end: the write, the proxy
\* regeneration, the proxy reload.
ProxyRefreshed ==
    clog = <<Entry("update_config", 0, TRUE), Entry("setup_nginx", 0, TRUE),
             Entry("reload_nginx", 0, TRUE)>>

\* C11 as stated: remove_domain of a domain that is not stored leaves the
\* document equal to what it was, also when it had no domains key, and runs
\* the proxy regeneration and then the proxy reload.
C11_AsStated ==
    (RemovingAbsentDomain /\ cpc = "done") => (config = before /\ ProxyRefreshed)

\* C11 amended: remove_domain of a domain that is not stored leaves the set of
\* stored domains and every other key as they were, writes the domains key
\* (an empty list when there was none), and a job that reaches its end has run
\* the proxy regeneration and then the proxy reload.
C11_RemoveAbsentKeepsDomainSet ==
    RemovingAbsentDomain =>
        /\ SetOf(StoredDomains) = SetOf(DomainsBefore)
        /\ \A k \in PlainKeys : Preserved(k)
        /\ Succeeded_c("update_config") => "domains" \in DOMAIN config
        /\ cpc = "done" => ProxyRefreshed

\* C11 witness: the document had no domains key; the job ended with the key
\* written as an empty list and the proxy reloaded.
C11_Witness ==
    /\ RemovingAbsentDomain
    /\ cpc = "done"
    /\ "domains" \notin DOMAIN before
    /\ "domains" \in DOMAIN config
    /\ config["domains"] = <<>>
    /\ ProxyRefreshed

----------------------------------------------------------------------------
(* Properties of disable_maintenance_mode and rename_job *)

Ran(op) == {i \in 1..Len(rlog) : rlog[i].op = op}

RanOk(op) == \E i \in Ran(op) : rlog[i].ok

\* The call that entry i of the journal is followed by: the next entry's, or
\* the one the job is about to make.
FollowedBy(i) == IF i < Len(rlog) THEN rlog[i + 1].op ELSE rpc

\* C12: whether the unblock command succeeds or fails, the next thing
\* disable_maintenance_mode does is "set-maintenance-mode off", which runs at
\* most once per call and exactly once when the step has ended; the step
\* fails exactly when "set-maintenance-mode off" fails.
C12_UnblockFailureIsSwallowed ==
    /\ \A i \in Ran("unblock_user") : FollowedBy(i) = "set_maintenance_mode_off"
    /\ Cardinality(Ran("unblock_user")) <= 1
    /\ Cardinality(Ran("set_maintenance_mode_off")) <= Cardinality(Ran("unblock_user"))
    /\ \A i \in Ran("set_maintenance_mode_off") :
        /\ i > 1
        /\ rlog[i - 1].op = "unblock_user"
        /\ rlog[i].ok => FollowedBy(i) \in {"enable_scheduler", "done", "failed"}
        /\ rlog[i].ok /\ i = Len(rlog) => rpc = "enable_scheduler"
        /\ ~rlog[i].ok => (i = Len(rlog) /\ rpc = "failed")
    /\ (rpc = "failed" /\ Ran("unblock_user") # {} /\ ~RanOk("set_maintenance_mode_off"))
            => \E i \in Ran("set_maintenance_mode_off") : ~rlog[i].ok

C12_Witness ==
    /\ rpc = "done"
    /\ \E i \in Ran("unblock_user") :
        /\ ~rlog[i].ok
        /\ rlog[i + 1] = Entry("set_maintenance_mode_off", 0, TRUE)
    /\ maintenance = FALSE

\* C13 as stated: the directory move and the proxy calls run only after
\* maintenance mode was enabled and wait_till_ready saw a successful
\* readiness attempt, and maintenance mode is disabled only after the move
\* and the proxy refresh.
C13_AsStated ==
    /\ \A i \in Ran("rename") \cup Ran("setup_nginx") \cup Ran("reload_nginx") :
        /\ \E j \in Ran("set_maintenance_mode_on") : j < i /\ rlog[j].ok
        /\ \E j \in Ran("wait_till_ready") : j < i
        /\ drained
    /\ \A i \in Ran("unblock_user") \cup Ran("set_maintenance_mode_off") :
        /\ \E j \in Ran("rename") : j < i /\ rlog[j].ok
        /\ \E j \in Ran("setup_nginx") : j < i /\ rlog[j].ok
        /\ \E j \in Ran("reload_nginx") : j < i /\ rlog[j].ok

----------------------------------------------------------------------------
(* Properties of backup and fetch_latest_backup *)

BackupCommandOk == blog # <<>> /\ blog[Len(blog)].ok

\* C14: for every role of the result, the selected file is one of the files
\* classified into that role and no file of that role has a later
\* modification time.
C14_SelectsNewestCandidate ==
    bpc = "done" =>
        \A r \in DOMAIN backups :
            /\ backups[r] \in Candidates(listing, r)
            /\ \A j \in Candidates(listing, r) :
                listing[j].mtime <= listing[backups[r]].mtime

C14_Witness ==
    /\ bpc = "done"
    /\ \E j \in Candidates(listing, "database") :
        /\ j < backups["database"]
        /\ listing[j].mtime < listing[backups["database"]].mtime

\* C15: a finished step returns exactly the required roles (database, and
\* private and public when files were requested); once the backup command
\* has succeeded the step fails, with no artifact set, exactly when a
\* required role has no candidate file, so that without files a missing
\* private or public file does not matter.
C15_ExactlyRequiredRoles ==
    LET required == IF with_files THEN {"database", "private", "public"}
                    ELSE {"database"}
        missing == \E r \in required : Candidates(listing, r) = {}
    IN  /\ bpc = "done" => (DOMAIN backups = required /\ ~missing /\ BackupCommandOk)
        /\ bpc = "failed" => (backups = NoBackups /\ (BackupCommandOk => missing))
        /\ (bpc = "fetch_latest_backup" /\ ~missing) => ENABLED (FetchLatestBackup /\ bpc' = "done")

C15_Witness ==
    /\ bpc = "failed"
    /\ BackupCommandOk
    /\ with_files
    /\ Candidates(listing, "database") # {}
    /\ Candidates(listing, "private") # {}
    /\ Candidates(listing, "public") = {}
    /\ backups = NoBackups

----------------------------------------------------------------------------
(* Properties of the table steps *)

\* The tables the running step ran command op for, in the order of the calls.
RECURSIVE ArgsOf(_, _)
ArgsOf(journal, op) ==
    IF journal = <<>> THEN <<>>
    ELSE IF journal[1].op = op THEN <<journal[1].arg>> \o ArgsOf(Tail(journal), op)
    ELSE ArgsOf(Tail(journal), op)

\* The manifest's entries that have a staged file, in the manifest's order.
RECURSIVE StagedOf(_)
StagedOf(list) ==
    IF list = <<>> THEN <<>>
    ELSE IF list[1] \in staged THEN <<list[1]>> \o StagedOf(Tail(list))
    ELSE StagedOf(Tail(list))

LastFailed(journal) == journal # <<>> /\ ~journal[Len(journal)].ok

\* C16: restore_touched_tables only ever replays a table that is in the
\* manifest and has a staged file; when it returns it has replayed every
\* such table, in the manifest's order, and its record has exactly those
\* tables; a table without a staged file makes no call and no failure; the
\* staging directory is left as it was.
C16_ReplaysListedAndStaged ==
    tstep = "restore_touched_tables" =>
        /\ staged = staged0
        /\ \A t \in Range(ArgsOf(tlog, "mysql")) : t \in Range(manifest) \cap staged
        /\ record \subseteq Range(manifest) \cap staged
        /\ tpc = "done" =>
            /\ record = Range(manifest) \cap staged
            /\ ArgsOf(tlog, "mysql") = StagedOf(manifest)
            /\ \A i \in 1..Len(tlog) : tlog[i].ok
        /\ tpc = "failed" => LastFailed(tlog)

C16_Witness ==
    /\ tstep = "restore_touched_tables"
    /\ tpc = "done"
    /\ \E t \in Range(manifest) : t \in staged /\ t \in record
    /\ \E t \in Range(manifest) : t \notin staged /\ t \notin record
    /\ \E t \in staged : t \notin Range(manifest) /\ t \notin record

----------------------------------------------------------------------------
(* Properties of two add_domain jobs on one site *)

BothDone == \A w \in Workers : kpc[w] = "done"

DifferentDomains == \A v, w \in Workers : v # w => kdomain[v] # kdomain[w]

BothStored == \A w \in Workers : kdomain[w] \in SetOf(StoredDomains)

\* C20: when two add_domain jobs for different domains have both ended
\* successfully and the second started after the first had ended, the
\* stored list holds both domains. (With the jobs overlapping a domain can
\* be lost: C20_Witness.)
C20_SerialJobsKeepBothDomains ==
    (BothDone /\ DifferentDomains /\ ~overlapped) => BothStored

C20_Witness ==
    /\ BothDone
    /\ DifferentDomains
    /\ overlapped
    /\ ~BothStored

----------------------------------------------------------------------------
(* Properties of update_config: the order of merge and removal *)

\* The document that merging the additions into the document read and then
\* dropping the removal keys gives.
MergedThenPopped ==
    [k \in (DOMAIN before \cup DOMAIN value) \ Range(remove) |->
        IF k \in DOMAIN value THEN value[k] ELSE before[k]]

\* C18: the persisted document is the document read, with the additions
\* merged in and then every removal key dropped: a key in both additions and
\* removals is absent, and a removal key that is nowhere changes nothing and
\* fails nothing (the step fails only when the write fails, and then the
\* stored document is as it was).
C18_MergeThenDelete ==
    /\ UpdateDone => config = MergedThenPopped
    /\ (cjob = "update_config_job" /\ cpc = "failed") =>
        (clog = <<Entry("update_config", 0, FALSE)>> /\ config = before)

C18_Witness ==
    /\ UpdateDone
    /\ \E k \in DOMAIN value \cap Range(remove) : k \in DOMAIN before /\ k \notin DOMAIN config
    /\ \E k \in Range(remove) : k \notin DOMAIN before \cup DOMAIN value
    /\ config = MergedThenPopped

----------------------------------------------------------------------------
(* Properties of restore_job: the order of the operations *)

\* The journal's calls without those of uninstall_unavailable_apps, the
\* migrate command under one name whatever its flag.
RECURSIVE MainOps(_)
MainOps(journal) ==
    IF journal = <<>> THEN <<>>
    ELSE LET op == journal[1].op
         IN  IF op \in UninstallOps THEN MainOps(Tail(journal))
             ELSE <<IF op \in MigrateOps THEN "migrate" ELSE op>> \o MainOps(Tail(journal))

RestoreOrder ==
    <<"download_files", "create_mariadb_user", "restore", "drop_mariadb_user",
      "delete_downloaded_files", "migrate", "set_admin_password", "enable_scheduler",
      "setup_nginx", "reload_nginx">>

IsPrefix(s, t) == Len(s) <= Len(t) /\ SubSeq(t, 1, Len(s)) = s

AllOk(journal) == \A i \in 1..Len(journal) : journal[i].ok

\* C19: while every call of restore_job has succeeded, its calls are made in
\* the order download files, provision credential, restore, revoke
\* credential, delete downloaded files, (the calls of
\* uninstall_unavailable_apps,) migrate, set administrator password, enable
\* scheduler, regenerate proxy, reload proxy; a job that ends successfully
\* has made all of them, followed by the list-apps query it returns; the
\* proxy is never reloaded before migrate has succeeded.
C19_RestoreJobOrder ==
    job = "restore_job" =>
        /\ AllOk(log) => IsPrefix(MainOps(log), RestoreOrder \o <<"list_apps">>)
        /\ \A i \in 1..Len(log) :
            log[i].op \in UninstallOps =>
                /\ \E j \in Called("delete_downloaded_files") : j < i
                /\ \A j \in 1..Len(log) : log[j].op \in MigrateOps => i < j
        /\ pc = "done" =>
            /\ AllOk(log)
            /\ MainOps(log) = RestoreOrder \o <<"list_apps">>
            /\ Called("get_installed_apps") # {}
        /\ \A i \in Called("reload_nginx") :
            \E j \in 1..Len(log) : j < i /\ log[j].op \in MigrateOps /\ log[j].ok

C19_Witness ==
    /\ job = "restore_job"
    /\ pc = "done"
    /\ Called("remove_from_installed_apps") # {}
    /\ Called("reload_nginx") # {}
    /\ MainOps(log) = RestoreOrder \o <<"list_apps">>

----------------------------------------------------------------------------
(* Properties of rename_job: no cleanup after a failure *)

MiddleOps == {"update_config", "rename", "setup_nginx", "reload_nginx"}

\* A call between enable_maintenance_mode and disable_maintenance_mode failed.
MiddleFailed == \E i \in 1..Len(rlog) : rlog[i].op \in MiddleOps /\ ~rlog[i].ok

\* C21: once the host_name update, the move, the proxy regeneration or the
\* proxy reload has failed, the job has failed, it runs neither
\* disable_maintenance_mode nor enable_scheduler, and the site stays in
\* maintenance mode; "set-maintenance-mode off" is only ever run after the
\* enabling, the move and both proxy calls succeeded and no call between
\* them failed.
C21_NoCleanupAfterFailure ==
    /\ MiddleFailed =>
        /\ rpc = "failed"
        /\ rlog[Len(rlog)].op \in MiddleOps
        /\ Ran("unblock_user") = {}
        /\ Ran("set_maintenance_mode_off") = {}
        /\ Ran("enable_scheduler") = {}
        /\ maintenance
    /\ \A i \in Ran("set_maintenance_mode_off") :
        /\ \A op \in {"set_maintenance_mode_on", "rename", "setup_nginx", "reload_nginx"} :
            \E j \in Ran(op) : j < i /\ rlog[j].ok
        /\ \A j \in 1..(i - 1) : rlog[j].op # "unblock_user" => rlog[j].ok

C21_Witness ==
    /\ rpc = "failed"
    /\ rlog # <<>>
    /\ rlog[Len(rlog)] = Entry("rename", 0, FALSE)
    /\ RanOk("update_config")
    /\ maintenance
    /\ Ran("set_maintenance_mode_off") = {}

====
